---- MODULE Spec2Model ----
(***************************************************************************)
(* Lazily loaded directory tree (DirectoryTree), its create / delete /     *)
(* rename handlers and modals, the page-level selection state and the      *)
(* tab-holding editor (CodeEditor) that listens to the window events       *)
(* "file-deleted" and "file-renamed".                                      *)
(*                                                                         *)
(* A path is the sequence of its "/"-separated segments: "src/a.py" is     *)
(* <<"src", "a.py">> and the repository root "" is <<>>.  A nullable       *)
(* string is a set with at most one element: null is {} and the string s   *)
(* is {s}.  The remote file service is the map fs from paths to the kind   *)
(* of entry stored there.                                                  *)
(***************************************************************************)
EXTENDS Naturals, Integers, Sequences, FiniteSets, Bags, TLC

(***************************************************************************)
(* Bounds of the model.                                                    *)
(***************************************************************************)
MaxDepth == 2      \* longest path the file service stores
MaxOps == 1        \* create / delete / rename operations started
MaxLoads == 2      \* directory listing requests in flight at once
MaxTabs == 2       \* tab ids handed out
MaxFetches == 1    \* file content requests in flight at once
MaxFailures == 1   \* requests lost to a transport failure
MaxClicks == 4     \* clicks and key strokes of the user

Names == {"src", "lib", "a.py", "b.py"}
NameOrder == <<"a.py", "b.py", "lib", "src">>

None == {}
Some(x) == {x}

RECURSIVE PathsOfLen(_)
PathsOfLen(n) ==
  IF n = 0 THEN {<<>>}
  ELSE {Append(p, s) : p \in PathsOfLen(n - 1), s \in Names}

FsPaths == UNION {PathsOfLen(n) : n \in 1..MaxDepth}

(***************************************************************************)
(* Path arithmetic of the client.                                          *)
(***************************************************************************)
\* itemPath.split("/").slice(0, -1).join("/")
\* a parent computation that always yields the root
parentPathTop(p) == <<>>

parentPath(p) == IF p = <<>> THEN <<>> ELSE SubSeq(p, 1, Len(p) - 1)

\* currentPath ? `${currentPath}/${filename}` : filename
fullPath(currentPath, filename) ==
  IF currentPath # <<>> THEN currentPath \o filename ELSE filename

\* path.split("/").pop() || ""
fileName(p) == IF p = <<>> THEN "" ELSE p[Len(p)]

IsPrefix(p, q) == Len(p) <= Len(q) /\ SubSeq(q, 1, Len(p)) = p
StrictlyUnder(q, p) == IsPrefix(p, q) /\ q # p

(***************************************************************************)
(* The remote file service.                                                *)
(***************************************************************************)
Kinds == {"file", "directory"}

IsDir(f, p) == p = <<>> \/ (p \in FsPaths /\ f[p] = "directory")
Exists(f, p) == p \in FsPaths /\ f[p] # "none"

\* GET files?path=p : the entries directly under p, in the service's order
ListItems(f, p) ==
  LET present(s) == Append(p, s) \in FsPaths /\ f[Append(p, s)] # "none"
      ordered == SelectSeq(NameOrder, present)
  IN [i \in 1..Len(ordered) |->
        [name |-> ordered[i], path |-> Append(p, ordered[i]),
         type |-> f[Append(p, ordered[i])]]]

\* POST files/create and files/create-directory
CanCreate(f, p) ==
  p \in FsPaths /\ f[p] = "none" /\ IsDir(f, parentPath(p))
ServiceCreate(f, p, kind) == [f EXCEPT ![p] = kind]

\* DELETE files/delete : removes the entry and everything under it
CanDelete(f, p) == Exists(f, p)
ServiceDelete(f, p) ==
  [q \in FsPaths |-> IF IsPrefix(p, q) THEN "none" ELSE f[q]]

\* PUT files/rename : the service decides the resulting path new_path.  The
\* leaf is new_name; the directory the entry ends up in is the service's
\* choice.
RenameTargets(f, old, newName) ==
  {q \in FsPaths :
     /\ Exists(f, old)
     /\ fileName(q) = newName
     /\ f[q] = "none"
     /\ IsDir(f, parentPath(q))
     /\ ~IsPrefix(old, q)
     /\ \A r \in FsPaths :
          (IsPrefix(old, r) /\ f[r] # "none")
            => (q \o SubSeq(r, Len(old) + 1, Len(r))) \in FsPaths}
ServiceRename(f, old, new) ==
  [q \in FsPaths |->
     IF IsPrefix(new, q)
     THEN LET src == old \o SubSeq(q, Len(new) + 1, Len(q))
          IN IF src \in FsPaths THEN f[src] ELSE "none"
     ELSE IF IsPrefix(old, q) THEN "none" ELSE f[q]]

(***************************************************************************)
(* The cached tree.  A TreeNode is a record                                *)
(*   [name, path, type, hasChildren, children, isExpanded, fresh]          *)
(* where hasChildren says whether the optional field `children` is         *)
(* present, and fresh says whether the object was allocated by the step    *)
(* taken last (FALSE: it is the very object the tree held before that      *)
(* step, so fresh is how object identity is observed).                     *)
(***************************************************************************)
\* response.items.map((item) => ({ ...item, isExpanded: false }))
mapItems(items) ==
  [i \in 1..Len(items) |->
     [name |-> items[i].name, path |-> items[i].path, type |-> items[i].type,
      hasChildren |-> FALSE, children |-> <<>>, isExpanded |-> FALSE,
      fresh |-> TRUE]]

\* the objects of the tree as they are seen by the next update
RECURSIVE Aged(_)
Aged(nodes) ==
  [i \in 1..Len(nodes) |->
     [nodes[i] EXCEPT !.fresh = FALSE, !.children = Aged(nodes[i].children)]]

\* a findAndUpdateNode whose map copies every node it passes
RECURSIVE findAndUpdateNodeCopyAll(_, _, _)
findAndUpdateNodeCopyAll(nodes, targetPath, newItems) ==
  [i \in 1..Len(nodes) |->
     LET node == nodes[i] IN
     IF node.path = targetPath /\ node.type = "directory"
     THEN [node EXCEPT
             !.children = [j \in 1..Len(newItems) |->
                             [newItems[j] EXCEPT !.fresh = TRUE]],
             !.hasChildren = TRUE,
             !.isExpanded = TRUE,
             !.fresh = TRUE]
     ELSE IF node.hasChildren
     THEN [node EXCEPT
             !.children =
               findAndUpdateNodeCopyAll(node.children, targetPath, newItems),
             !.fresh = TRUE]
     ELSE [node EXCEPT !.fresh = TRUE]]

\* a findAndUpdateNode that adds the listing to the children it already has
RECURSIVE findAndUpdateNodeAppend(_, _, _)
findAndUpdateNodeAppend(nodes, targetPath, newItems) ==
  [i \in 1..Len(nodes) |->
     LET node == nodes[i] IN
     IF node.path = targetPath /\ node.type = "directory"
     THEN [node EXCEPT
             !.children = node.children \o
                          [j \in 1..Len(newItems) |->
                             [newItems[j] EXCEPT !.fresh = TRUE]],
             !.hasChildren = TRUE,
             !.isExpanded = TRUE,
             !.fresh = TRUE]
     ELSE IF node.hasChildren
     THEN [node EXCEPT
             !.children =
               findAndUpdateNodeAppend(node.children, targetPath, newItems),
             !.fresh = TRUE]
     ELSE node]

\* a findAndUpdateNode that keeps children under the target only
findAndUpdateNodeOnly(nodes, targetPath, newItems) ==
  [i \in 1..Len(nodes) |->
     LET node == nodes[i] IN
     IF node.path = targetPath /\ node.type = "directory"
     THEN [node EXCEPT
             !.children = [j \in 1..Len(newItems) |->
                             [newItems[j] EXCEPT !.fresh = TRUE]],
             !.hasChildren = TRUE,
             !.isExpanded = TRUE,
             !.fresh = TRUE]
     ELSE [node EXCEPT !.hasChildren = FALSE, !.children = <<>>,
                       !.fresh = TRUE]]

RECURSIVE findAndUpdateNode(_, _, _)
findAndUpdateNode(nodes, targetPath, newItems) ==
  [i \in 1..Len(nodes) |->
     LET node == nodes[i] IN
     IF node.path = targetPath /\ node.type = "directory"
     THEN [node EXCEPT
             !.children = [j \in 1..Len(newItems) |->
                             [newItems[j] EXCEPT !.fresh = TRUE]],
             !.hasChildren = TRUE,
             !.isExpanded = TRUE,
             !.fresh = TRUE]
     ELSE IF node.hasChildren
     THEN [node EXCEPT
             !.children = findAndUpdateNode(node.children, targetPath, newItems),
             !.fresh = TRUE]
     ELSE node]

updateTreeData(currentData, targetPath, newItems) ==
  findAndUpdateNode(currentData, targetPath, newItems)

\* a collapseFolder that forgets the children of the collapsed node
RECURSIVE collapseFolderDrop(_, _)
collapseFolderDrop(nodes, targetPath) ==
  [i \in 1..Len(nodes) |->
     LET node == nodes[i] IN
     IF node.path = targetPath
     THEN [node EXCEPT !.isExpanded = FALSE, !.hasChildren = FALSE,
                       !.children = <<>>, !.fresh = TRUE]
     ELSE IF node.hasChildren
     THEN [node EXCEPT
             !.children = collapseFolderDrop(node.children, targetPath),
             !.fresh = TRUE]
     ELSE node]

RECURSIVE collapseFolder(_, _)
collapseFolder(nodes, targetPath) ==
  [i \in 1..Len(nodes) |->
     LET node == nodes[i] IN
     IF node.path = targetPath
     THEN [node EXCEPT !.isExpanded = FALSE, !.fresh = TRUE]
     ELSE IF node.hasChildren
     THEN [node EXCEPT !.children = collapseFolder(node.children, targetPath),
                       !.fresh = TRUE]
     ELSE node]

\* all node objects of the tree, at any depth
RECURSIVE AllNodes(_)
AllNodes(nodes) ==
  UNION {{nodes[i]} \cup AllNodes(nodes[i].children) : i \in 1..Len(nodes)}

\* number of node objects with path p
RECURSIVE CountPath(_, _)
CountPath(nodes, p) ==
  IF nodes = <<>> THEN 0
  ELSE (IF Head(nodes).path = p THEN 1 ELSE 0)
       + CountPath(Head(nodes).children, p) + CountPath(Tail(nodes), p)

\* renderTreeItem: the items on screen, children only under an expanded
\* path that has children
RECURSIVE Rendered(_, _)
Rendered(nodes, expanded) ==
  UNION {{nodes[i]} \cup
           (IF nodes[i].path \in expanded /\ nodes[i].hasChildren
            THEN Rendered(nodes[i].children, expanded) ELSE {})
         : i \in 1..Len(nodes)}

(***************************************************************************)
(* State.                                                                  *)
(***************************************************************************)
VARIABLES
  fs,               \* the remote file service: FsPaths -> kind or "none"
  treeData,         \* DirectoryTree: the cached tree (sequence of TreeNode)
  expandedFolders,  \* DirectoryTree: set of expanded paths
  loading,          \* DirectoryTree: a listing is being awaited
  error,            \* DirectoryTree: a listing failed (error view is shown)
  loads,            \* listing requests in flight (bag)
  op,               \* the create / delete / rename handler in progress
  events,           \* window events dispatched since the handler started
  issued,           \* paths of the listings requested by that handler
  selectedFile,     \* page: selectedFile, the editor's filePath prop
  fetches,          \* content requests in flight (bag)
  tabs,             \* editor: the open tabs
  activeTabId,      \* editor: id of the active tab, 0 for null
  modifiedTabs,     \* editor: ids of tabs with unsaved edits
  nextTabId,        \* editor: the next tab id to hand out
  opCount,          \* number of handlers started
  failures,         \* number of transport failures so far
  clicks,           \* number of user actions so far
  mounted,          \* the page with the tree and the editor is mounted
  seen,             \* events the listeners of the editor have handled
  sent,             \* remote create / delete / rename requests sent so far
  reported,         \* times the catch block of a modal has run so far
  last              \* the step taken last

vars == <<fs, treeData, expandedFolders, loading, error, loads, op, events, issued,
          selectedFile, fetches, tabs, activeTabId, modifiedTabs, nextTabId,
          opCount, failures, clicks, mounted, seen, sent, reported, last>>

\* the tree keeps all its objects
sameTree == treeData' = Aged(treeData)

\* the DirectoryTree component is left alone
treeUntouched == sameTree /\ UNCHANGED <<expandedFolders, loading, error, loads>>
editorVars == <<tabs, activeTabId, modifiedTabs, nextTabId>>
pageVars == <<selectedFile, fetches>>
busVars == <<mounted, seen>>
callVars == <<sent, reported>>

Idle ==
  [kind |-> "none", phase |-> "idle", path |-> <<>>, itemType |-> "none",
   name |-> <<>>, active |-> None, newPath |-> <<>>, error |-> ""]

InitFs ==
  [p \in FsPaths |->
     IF p \in {<<"src">>, <<"lib">>} THEN "directory"
     ELSE IF p \in {<<"a.py">>, <<"src", "a.py">>} THEN "file"
     ELSE "none"]

\* fileService.listDirectory(path): the request is answered from the file
\* service as it is when the request is sent (found: path is a directory)
ListRequest(f, path, by) ==
  [path |-> path, by |-> by, found |-> IsDir(f, path),
   items |-> IF IsDir(f, path) THEN ListItems(f, path) ELSE <<>>]

\* how an awaited request can end: resolved, or rejected because the
\* service refused it or the transport failed
Outcome(accepted, ok) ==
  /\ ok => accepted
  /\ (~ok /\ accepted) => failures < MaxFailures
  /\ failures' = IF ~ok /\ accepted THEN failures + 1 ELSE failures

\* the state after mount: useEffect(() => { loadDirectory(); }, ...)
Init ==
  /\ fs = InitFs
  /\ treeData = <<>>
  /\ expandedFolders = {}
  /\ loading = TRUE
  /\ error = FALSE
  /\ loads = SetToBag({ListRequest(InitFs, <<>>, "plain")})
  /\ op = Idle
  /\ events = <<>>
  /\ issued = <<>>
  /\ selectedFile = None
  /\ fetches = EmptyBag
  /\ tabs = <<>>
  /\ activeTabId = 0
  /\ modifiedTabs = {}
  /\ nextTabId = 1
  /\ opCount = 0
  /\ failures = 0
  /\ clicks = 0
  /\ mounted = TRUE
  /\ seen = <<>>
  /\ sent = 0
  /\ reported = 0
  /\ last = [act |-> "mount", path |-> <<>>, op |-> Idle]

\* a loadDirectory that drops a listing the service has outdated meanwhile
treeAfterLoadNewest(data, l) ==
  IF l.items # ListItems(fs, l.path) THEN Aged(data)
  ELSE IF l.path # <<>>
  THEN updateTreeData(Aged(data), l.path, mapItems(l.items))
  ELSE mapItems(l.items)

\* loadDirectory after the await: the try body, catch and finally
treeAfterLoad(data, l) ==
  IF l.path # <<>>
  THEN updateTreeData(Aged(data), l.path, mapItems(l.items))
  ELSE mapItems(l.items)

LoadSettles(l, ok) ==
  /\ Outcome(l.found, ok)
  /\ loads' = loads (-) SetToBag({l})
  /\ IF ~mounted
     THEN sameTree /\ UNCHANGED <<loading, error>>
     ELSE /\ loading' = FALSE
          /\ IF ok
             THEN /\ treeData' = treeAfterLoad(treeData, l)
                  /\ error' = error
             ELSE /\ sameTree
                  /\ error' = TRUE

\* a listing requested by mount, by an expand or by Retry arrives
LoadDirectoryResponse(l, ok) ==
  /\ BagIn(l, loads)
  /\ l.by = "plain"
  /\ LoadSettles(l, ok)
  /\ last' = [act |-> IF ok THEN "loaded" ELSE "loadFailed", path |-> l.path, op |-> Idle]
  /\ UNCHANGED <<fs, expandedFolders, op, events, issued, opCount, clicks>>
  /\ UNCHANGED pageVars
  /\ UNCHANGED editorVars
  /\ UNCHANGED busVars
  /\ UNCHANGED callVars

\* one more action of the user
Click == clicks < MaxClicks /\ clicks' = clicks + 1

\* the user can click in the tree: no modal overlay, no error view
TreeClickable == mounted /\ op.phase = "idle" /\ ~error

\* toggleFolder, the branch that collapses
collapseBranch(item) ==
  /\ expandedFolders' = expandedFolders \ {item.path}
  /\ treeData' = collapseFolder(Aged(treeData), item.path)
  /\ last' = [act |-> "collapse", path |-> item.path, op |-> Idle]
  /\ UNCHANGED <<loading, error, loads>>

\* an expand branch that keeps the children a folder already has
expandBranchCached(item) ==
  /\ BagCardinality(loads) < MaxLoads
  /\ expandedFolders' = expandedFolders \cup {item.path}
  /\ IF item.hasChildren
     THEN UNCHANGED <<loads, loading, error>>
     ELSE /\ loads' = loads (+) SetToBag({ListRequest(fs, item.path, "plain")})
          /\ loading' = TRUE
          /\ error' = FALSE
  /\ last' = [act |-> "expand", path |-> item.path, op |-> Idle]
  /\ sameTree

\* an expand branch that loads the folder and leaves expandedFolders alone
expandBranchNoAdd(item) ==
  /\ BagCardinality(loads) < MaxLoads
  /\ expandedFolders' = expandedFolders
  /\ loads' = loads (+) SetToBag({ListRequest(fs, item.path, "plain")})
  /\ loading' = TRUE
  /\ error' = FALSE
  /\ last' = [act |-> "expand", path |-> item.path, op |-> Idle]
  /\ sameTree

\* toggleFolder, the branch that expands: the folder is always loaded again
expandBranch(item) ==
  /\ BagCardinality(loads) < MaxLoads
  /\ expandedFolders' = expandedFolders \cup {item.path}
  /\ loads' = loads (+) SetToBag({ListRequest(fs, item.path, "plain")})
  /\ loading' = TRUE
  /\ error' = FALSE
  /\ last' = [act |-> "expand", path |-> item.path, op |-> Idle]
  /\ sameTree

\* toggleFolder on a rendered directory
toggleFolder(item) ==
  /\ Click
  /\ TreeClickable
  /\ item \in Rendered(treeData, expandedFolders)
  /\ item.type = "directory"
  /\ IF item.path \in expandedFolders
     THEN collapseBranch(item)
     ELSE expandBranch(item)
  /\ UNCHANGED <<fs, op, events, issued, opCount, failures>>
  /\ UNCHANGED pageVars
  /\ UNCHANGED editorVars
  /\ UNCHANGED busVars
  /\ UNCHANGED callVars

\* the Retry button of the error view: loadDirectory()
Retry ==
  /\ Click
  /\ error
  /\ op.phase = "idle"
  /\ BagCardinality(loads) < MaxLoads
  /\ loads' = loads (+) SetToBag({ListRequest(fs, <<>>, "plain")})
  /\ loading' = TRUE
  /\ error' = FALSE
  /\ last' = [act |-> "retry", path |-> <<>>, op |-> Idle]
  /\ sameTree
  /\ UNCHANGED <<fs, expandedFolders, op, events, issued, opCount, failures>>
  /\ UNCHANGED pageVars
  /\ UNCHANGED editorVars
  /\ UNCHANGED busVars
  /\ UNCHANGED callVars

(***************************************************************************)
(* The page (selectedFile / activeFile) and the editor's tabs.             *)
(***************************************************************************)
TabWithId(ts, id) == {i \in 1..Len(ts) : ts[i].id = id}
TabsAt(ts, p) == {i \in 1..Len(ts) : ts[i].path = p}

\* const activeTab = tabs.find((tab) => tab.id === activeTabId);
\* onActiveFileChange(activeTab?.path || null) -> setActiveFile
activeFileOf(ts, aid) ==
  LET hit == TabWithId(ts, aid)
  IN IF hit = {} THEN None
     ELSE LET t == ts[CHOOSE i \in hit : \A j \in hit : i <= j]
          IN IF t.path = <<>> THEN None ELSE Some(t.path)

activeFile == activeFileOf(tabs, activeTabId)

\* fileService.getFileContent(path), answered from the file service as it
\* is when the request is sent
ContentRequest(f, path) ==
  [path |-> path, found |-> path \in FsPaths /\ f[path] = "file"]

\* handleFileSelect(filePath) of the page, and the editor effect that runs
\* when its filePath prop has changed: if (!filePath) return; addTab()
onFileSelect(f, filePath) ==
  IF ~mounted THEN UNCHANGED <<selectedFile, fetches>>
  ELSE /\ selectedFile' = Some(filePath)
       /\ IF Some(filePath) # selectedFile /\ filePath # <<>>
          THEN fetches' = fetches (+) SetToBag({ContentRequest(f, filePath)})
          ELSE fetches' = fetches

\* a handleDeleteEvent that also closes the tabs under the deleted path
handleDeleteEventPrefix(ts, detail) ==
  SelectSeq(ts, LAMBDA tab : ~IsPrefix(detail, tab.path))

\* handleDeleteEvent
handleDeleteEvent(ts, detail) == SelectSeq(ts, LAMBDA tab : tab.path # detail)

\* a handleRenameEvent that opens the renamed file anew
handleRenameEventReopen(ts, detail) ==
  [i \in 1..Len(ts) |->
     IF ts[i].path = detail.oldPath
     THEN [ts[i] EXCEPT !.path = detail.newPath,
                        !.name = fileName(detail.newPath),
                        !.content = "saved"]
     ELSE ts[i]]

\* handleRenameEvent
handleRenameEvent(ts, detail) ==
  [i \in 1..Len(ts) |->
     IF ts[i].path = detail.oldPath
     THEN [ts[i] EXCEPT !.path = detail.newPath,
                        !.name = fileName(detail.newPath)]
     ELSE ts[i]]

\* the tree and the tab bar lie under the overlay of an open modal
NoModal == mounted /\ op.phase = "idle"

\* handleItemClick on a rendered file
handleItemClick(item) ==
  /\ Click
  /\ TreeClickable
  /\ item \in Rendered(treeData, expandedFolders)
  /\ item.type # "directory"
  /\ BagCardinality(fetches) < MaxFetches
  /\ nextTabId + BagCardinality(fetches) <= MaxTabs
  /\ onFileSelect(fs, item.path)
  /\ last' = [act |-> "select", path |-> item.path, op |-> Idle]
  /\ UNCHANGED <<fs, op, events, issued, opCount, failures>>
  /\ treeUntouched
  /\ UNCHANGED editorVars
  /\ UNCHANGED busVars
  /\ UNCHANGED callVars

\* addTab after the await
addTabResponse(r, ok) ==
  /\ BagIn(r, fetches)
  /\ Outcome(r.found, ok)
  /\ fetches' = fetches (-) SetToBag({r})
  /\ IF ok
     THEN LET existing == TabsAt(tabs, r.path) IN
          IF existing # {}
          THEN LET idx == CHOOSE i \in existing : \A j \in existing : i <= j
               IN /\ tabs' = [i \in 1..Len(tabs) |->
                               [tabs[i] EXCEPT
                                  !.isActive = (tabs[i].id = tabs[idx].id)]]
                  /\ activeTabId' = tabs[idx].id
                  /\ nextTabId' = nextTabId
          ELSE /\ tabs' = Append([i \in 1..Len(tabs) |->
                                    [tabs[i] EXCEPT !.isActive = FALSE]],
                                 [id |-> nextTabId, path |-> r.path,
                                  name |-> fileName(r.path),
                                  content |-> "saved", isActive |-> TRUE])
               /\ activeTabId' = nextTabId
               /\ nextTabId' = nextTabId + 1
     ELSE UNCHANGED <<tabs, activeTabId, nextTabId>>
  /\ last' = [act |-> IF ok THEN "tabOpened" ELSE "fetchFailed",
              path |-> r.path, op |-> Idle]
  /\ UNCHANGED <<fs, op, events, issued, opCount, clicks, selectedFile, modifiedTabs>>
  /\ treeUntouched
  /\ UNCHANGED busVars
  /\ UNCHANGED callVars

handleTabClick(tabId) ==
  /\ Click
  /\ NoModal
  /\ TabWithId(tabs, tabId) # {}
  /\ tabs' = [i \in 1..Len(tabs) |->
               [tabs[i] EXCEPT !.isActive = (tabs[i].id = tabId)]]
  /\ activeTabId' = tabId
  /\ last' = [act |-> "tabClick", path |-> <<>>, op |-> Idle]
  /\ UNCHANGED <<fs, op, events, issued, opCount, failures, modifiedTabs, nextTabId>>
  /\ treeUntouched
  /\ UNCHANGED pageVars
  /\ UNCHANGED busVars
  /\ UNCHANGED callVars

\* handleTabClose, the confirm dialog answered with OK
handleTabClose(tabId) ==
  /\ Click
  /\ NoModal
  /\ TabWithId(tabs, tabId) # {}
  /\ LET updatedTabs == SelectSeq(tabs, LAMBDA tab : tab.id # tabId) IN
     IF Len(updatedTabs) = 0
     THEN /\ tabs' = <<>>
          /\ activeTabId' = 0
          /\ modifiedTabs' = {}
     ELSE /\ modifiedTabs' = modifiedTabs \ {tabId}
          /\ IF tabId = activeTabId
             THEN LET nextActiveTab == updatedTabs[Len(updatedTabs)] IN
                  /\ activeTabId' = nextActiveTab.id
                  /\ tabs' = [i \in 1..Len(updatedTabs) |->
                               [updatedTabs[i] EXCEPT
                                  !.isActive =
                                    (updatedTabs[i].id = nextActiveTab.id)]]
             ELSE /\ tabs' = updatedTabs
                  /\ activeTabId' = activeTabId
  /\ last' = [act |-> "tabClose", path |-> <<>>, op |-> Idle]
  /\ UNCHANGED <<fs, op, events, issued, opCount, failures, nextTabId>>
  /\ treeUntouched
  /\ UNCHANGED pageVars
  /\ UNCHANGED busVars
  /\ UNCHANGED callVars

\* handleContentChange: the user types in the editor
handleContentChange ==
  /\ Click
  /\ NoModal
  /\ Len(tabs) > 0
  /\ activeTabId # 0
  /\ modifiedTabs' = modifiedTabs \cup {activeTabId}
  /\ tabs' = [i \in 1..Len(tabs) |->
               IF tabs[i].id = activeTabId
               THEN [tabs[i] EXCEPT !.content = "edited"] ELSE tabs[i]]
  /\ last' = [act |-> "edit", path |-> <<>>, op |-> Idle]
  /\ UNCHANGED <<fs, op, events, issued, opCount, failures, activeTabId, nextTabId>>
  /\ treeUntouched
  /\ UNCHANGED pageVars
  /\ UNCHANGED busVars
  /\ UNCHANGED callVars

(***************************************************************************)
(* Create, delete and rename: context menu, modal, handler.                *)
(***************************************************************************)
\* room for the listing request of a handler, and for the content request
\* and the tab that a new selection may cause
Headroom(selects) ==
  /\ opCount < MaxOps
  /\ BagCardinality(loads) < MaxLoads
  /\ selects => /\ BagCardinality(fetches) < MaxFetches
                /\ nextTabId + BagCardinality(fetches) <= MaxTabs

\* the paths the context menu can be opened on
MenuItems == Rendered(treeData, expandedFolders)

\* a submit that expands the folder before the service has answered
StartOpEager(o) ==
  /\ Click
  /\ op' = o
  /\ events' = <<>>
  /\ issued' = <<>>
  /\ opCount' = opCount + 1
  /\ UNCHANGED failures
  /\ last' = [act |-> "submit", path |-> o.path, op |-> o]
  /\ sameTree
  /\ expandedFolders' = expandedFolders \cup {o.path}
  /\ UNCHANGED <<loading, error, loads>>
  /\ UNCHANGED fs
  /\ UNCHANGED pageVars
  /\ UNCHANGED editorVars
  /\ seen' = <<>>
  /\ UNCHANGED mounted
  /\ sent' = sent + 1
  /\ UNCHANGED reported

StartOp(o) ==
  /\ Click
  /\ op' = o
  /\ events' = <<>>
  /\ issued' = <<>>
  /\ opCount' = opCount + 1
  /\ UNCHANGED failures
  /\ last' = [act |-> "submit", path |-> o.path, op |-> o]
  /\ treeUntouched
  /\ UNCHANGED fs
  /\ UNCHANGED pageVars
  /\ UNCHANGED editorVars
  /\ seen' = <<>>
  /\ UNCHANGED mounted
  /\ sent' = sent + 1
  /\ UNCHANGED reported

\* what the user can type into the name field: a name is a sequence of
\* pieces, each a run of ordinary characters or one special character
TypedNames ==
  {<<n>> : n \in Names}
    \cup {<<>>, <<" ">>, <<"src", "/", "b.py">>, <<"b.py", "?">>}

\* filename.trim()
trim(typed) ==
  LET inked == {i \in 1..Len(typed) : typed[i] # " "}
  IN IF inked = {} THEN <<>>
     ELSE SubSeq(typed, CHOOSE i \in inked : \A j \in inked : i <= j,
                        CHOOSE i \in inked : \A j \in inked : j <= i)

\* const invalidChars = /[<>:"/\\|?*]/
invalidChars == {"<", ">", ":", "\"", "/", "\\", "|", "?", "*"}

\* a name check that only looks for an empty name
validNameNonEmpty(typed) == trim(typed) # <<>>

\* the two checks at the head of CreateFileModal.handleSubmit
validName(typed) ==
  /\ trim(typed) # <<>>
  /\ ~\E i \in 1..Len(typed) : typed[i] \in invalidChars

\* the directory the context menu was opened on, or empty space
MenuTarget(currentPath) ==
  \/ currentPath = <<>>
  \/ \E item \in Rendered(treeData, expandedFolders) :
       item.type = "directory" /\ item.path = currentPath

\* context menu "New File" / "New Folder", then CreateFileModal.handleSubmit
\* with a name that fails a check: the message is shown, nothing is sent
CreateRejected(currentPath, filename, mode) ==
  /\ Click
  /\ TreeClickable
  /\ MenuTarget(currentPath)
  /\ ~validName(filename)
  /\ op' = [Idle EXCEPT
              !.kind = IF mode = "folder" THEN "createFolder" ELSE "createFile",
              !.phase = "open",
              !.path = currentPath,
              !.itemType = "directory",
              !.error = "validation"]
  /\ last' = [act |-> "rejected", path |-> currentPath, op |-> op']
  /\ treeUntouched
  /\ UNCHANGED <<fs, events, issued, opCount, failures>>
  /\ UNCHANGED pageVars
  /\ UNCHANGED editorVars
  /\ UNCHANGED busVars
  /\ UNCHANGED callVars

\* Escape or Cancel in a modal that shows after a failure: onClose
ModalClose ==
  /\ Click
  /\ op.phase = "open"
  /\ op' = Idle
  /\ last' = [act |-> "close", path |-> op.path, op |-> op]
  /\ treeUntouched
  /\ UNCHANGED <<fs, events, issued, opCount, failures>>
  /\ UNCHANGED pageVars
  /\ UNCHANGED editorVars
  /\ UNCHANGED busVars
  /\ UNCHANGED callVars

\* context menu "New File" / "New Folder" on a directory or on empty space,
\* then CreateFileModal.handleSubmit with a valid name up to the call of
\* fileService.createFile / createDirectory
CreateSubmit(currentPath, filename, mode) ==
  /\ TreeClickable
  /\ validName(filename)
  /\ Headroom(mode = "file")
  /\ \/ currentPath = <<>>
     \/ \E item \in MenuItems :
          item.type = "directory" /\ item.path = currentPath
  /\ StartOp([kind |-> IF mode = "folder" THEN "createFolder" ELSE "createFile",
              phase |-> "remote",
              path |-> currentPath,
              itemType |-> "directory",
              name |-> fullPath(currentPath, filename),
              active |-> activeFile,
              newPath |-> <<>>,
              error |-> ""])

\* context menu "Delete", then DeleteConfirmModal.handleConfirm up to the
\* call of fileService.deleteFile
DeleteConfirm(item) ==
  /\ TreeClickable
  /\ Headroom(FALSE)
  /\ item \in MenuItems
  /\ StartOp([kind |-> "delete", phase |-> "remote", path |-> item.path,
              itemType |-> item.type,
              name |-> <<>>, active |-> activeFile, newPath |-> <<>>,
              error |-> ""])

\* context menu "Rename", then RenameModal.handleSubmit with a new name up
\* to the call of fileService.renameFile
RenameSubmit(item, newName) ==
  /\ TreeClickable
  /\ Headroom(activeFile = Some(item.path))
  /\ item \in MenuItems
  /\ newName # item.name
  /\ StartOp([kind |-> "rename", phase |-> "remote", path |-> item.path,
              itemType |-> item.type,
              name |-> <<newName>>, active |-> activeFile, newPath |-> <<>>,
              error |-> ""])

\* loadDirectory(path) up to its await, called by a handler
handlerLoads(f, path) ==
  /\ loads' = loads (+) SetToBag({ListRequest(f, path, "op")})
  /\ issued' = Append(issued, path)
  /\ loading' = mounted
  /\ error' = FALSE
  /\ sameTree

\* whether the file service accepts the remote call of the handler
Acceptable ==
  CASE op.kind \in {"createFile", "createFolder"} -> CanCreate(fs, op.name)
    [] op.kind = "delete" -> CanDelete(fs, op.path)
    [] op.kind = "rename" ->
         RenameTargets(fs, op.path, fileName(op.name)) # {}
    [] OTHER -> FALSE

\* the catch blocks of the modals: CreateFileModal and RenameModal call
\* setError, DeleteConfirmModal calls console.error
modalCatch(kind) == IF kind = "delete" THEN "" ELSE "remote"

\* a handler that lists the parent again when its remote call has failed
RemoteFailsReloads ==
  /\ op.phase = "remote"
  /\ Outcome(Acceptable, FALSE)
  /\ BagCardinality(loads) < MaxLoads
  /\ op' = [op EXCEPT !.phase = "open", !.error = modalCatch(op.kind)]
  /\ last' = [act |-> "opFailed", path |-> op.path, op |-> op]
  /\ loads' = loads (+) SetToBag({ListRequest(fs, parentPath(op.path), "plain")})
  /\ issued' = Append(issued, parentPath(op.path))
  /\ sameTree
  /\ UNCHANGED <<expandedFolders, loading, error>>
  /\ UNCHANGED <<fs, events, opCount, clicks>>
  /\ UNCHANGED pageVars
  /\ UNCHANGED editorVars
  /\ UNCHANGED busVars
  /\ reported' = reported + 1
  /\ UNCHANGED sent

\* a handler that sends its request again when the remote call has failed
RemoteFailsRetries ==
  /\ op.phase = "remote"
  /\ Outcome(Acceptable, FALSE)
  /\ sent <= MaxOps
  /\ op' = op
  /\ last' = [act |-> "opFailed", path |-> op.path, op |-> op]
  /\ treeUntouched
  /\ UNCHANGED <<fs, events, issued, opCount, clicks>>
  /\ UNCHANGED pageVars
  /\ UNCHANGED editorVars
  /\ UNCHANGED busVars
  /\ sent' = sent + 1
  /\ UNCHANGED reported

\* the remote call of the handler fails: the error reaches the modal, which
\* stays open
RemoteFails ==
  /\ op.phase = "remote"
  /\ Outcome(Acceptable, FALSE)
  /\ op' = IF mounted
           THEN [op EXCEPT !.phase = "open", !.error = modalCatch(op.kind)]
           ELSE Idle
  /\ last' = [act |-> "opFailed", path |-> op.path, op |-> op]
  /\ treeUntouched
  /\ UNCHANGED <<fs, events, issued, opCount, clicks>>
  /\ UNCHANGED pageVars
  /\ UNCHANGED editorVars
  /\ UNCHANGED busVars
  /\ reported' = reported + 1
  /\ UNCHANGED sent

\* a create handler that leaves the parent as it is
ensureExpandedNever(currentPath) == expandedFolders' = expandedFolders

\* if (currentPath) setExpandedFolders((prev) => new Set(prev).add(currentPath))
ensureExpanded(currentPath) ==
  expandedFolders' =
    IF mounted /\ currentPath # <<>> THEN expandedFolders \cup {currentPath}
    ELSE expandedFolders

\* handleCreateFile / handleCreateFolder after the await of the remote call
CreateAccepted ==
  /\ op.phase = "remote"
  /\ op.kind \in {"createFile", "createFolder"}
  /\ CanCreate(fs, op.name)
  /\ fs' = ServiceCreate(fs, op.name,
                         IF op.kind = "createFile" THEN "file" ELSE "directory")
  /\ ensureExpanded(op.path)
  /\ handlerLoads(fs', op.path)
  /\ op' = [op EXCEPT !.phase = "reload"]
  /\ last' = [act |-> "accepted", path |-> op.path, op |-> op]
  /\ UNCHANGED <<events, opCount, clicks, failures>>
  /\ UNCHANGED pageVars
  /\ UNCHANGED editorVars
  /\ UNCHANGED busVars
  /\ UNCHANGED callVars

\* handleDeleteFile after the await of the remote call
DeleteAccepted ==
  /\ op.phase = "remote"
  /\ op.kind = "delete"
  /\ CanDelete(fs, op.path)
  /\ fs' = ServiceDelete(fs, op.path)
  /\ handlerLoads(fs', parentPath(op.path))
  /\ op' = [op EXCEPT !.phase = "reload"]
  /\ last' = [act |-> "accepted", path |-> op.path, op |-> op]
  /\ UNCHANGED <<expandedFolders, events, opCount, clicks, failures>>
  /\ UNCHANGED pageVars
  /\ UNCHANGED editorVars
  /\ UNCHANGED busVars
  /\ UNCHANGED callVars

\* handleRenameFile after the await of the remote call; response.new_path
RenameAccepted(newPath) ==
  /\ op.phase = "remote"
  /\ op.kind = "rename"
  /\ newPath \in RenameTargets(fs, op.path, fileName(op.name))
  /\ fs' = ServiceRename(fs, op.path, newPath)
  /\ handlerLoads(fs', parentPath(op.path))
  /\ op' = [op EXCEPT !.phase = "reload", !.newPath = newPath]
  /\ last' = [act |-> "accepted", path |-> op.path, op |-> op]
  /\ UNCHANGED <<expandedFolders, events, opCount, clicks, failures>>
  /\ UNCHANGED pageVars
  /\ UNCHANGED editorVars
  /\ UNCHANGED busVars
  /\ UNCHANGED callVars

\* window.dispatchEvent: the listeners of the editor run
dispatchNone == events' = events /\ tabs' = tabs /\ seen' = seen

\* a dispatch that is given up when the listing before it has failed
dispatchIfLoaded(ev, handled) ==
  IF error'
  THEN events' = events /\ tabs' = tabs /\ seen' = seen
  ELSE /\ events' = Append(events, ev)
       /\ IF mounted
          THEN tabs' = handled /\ seen' = Append(seen, ev)
          ELSE tabs' = tabs /\ seen' = seen

\* the event reaches the listeners registered on window at this moment
dispatch(ev, handled) ==
  /\ events' = Append(events, ev)
  /\ IF mounted
     THEN tabs' = handled /\ seen' = Append(seen, ev)
     ELSE tabs' = tabs /\ seen' = seen

dispatchDeleted(detail) ==
  dispatch([type |-> "file-deleted", oldPath |-> detail, newPath |-> <<>>],
           handleDeleteEvent(tabs, detail))

dispatchRenamed(detail) ==
  dispatch([type |-> "file-renamed", oldPath |-> detail.oldPath,
            newPath |-> detail.newPath],
           handleRenameEvent(tabs, detail))

\* handleCreateFile after the await of loadDirectory
createFileRest(o) ==
  /\ onFileSelect(fs, fullPath(o.path, o.name))
  /\ dispatchNone

\* a folder creation that selects the new folder
createFolderRestSelects(o) ==
  /\ onFileSelect(fs, o.name)
  /\ dispatchNone

\* handleCreateFolder after the await of loadDirectory
createFolderRest(o) ==
  /\ UNCHANGED pageVars
  /\ dispatchNone

\* a delete handler that leaves the selection alone
deleteRestKeepSelection(o) ==
  /\ UNCHANGED pageVars
  /\ dispatchDeleted(o.path)

\* handleDeleteFile after the await of loadDirectory, then
\* DeleteConfirmModal.handleConfirm after the await of onConfirm
deleteRest(o) ==
  /\ IF o.active = Some(o.path)
     THEN onFileSelect(fs, <<>>)
     ELSE UNCHANGED pageVars
  /\ dispatchDeleted(o.path)

\* handleRenameFile after the await of loadDirectory
renameRest(o) ==
  /\ IF o.active = Some(o.path)
     THEN onFileSelect(fs, fullPath(parentPath(o.path), o.name))
     ELSE UNCHANGED pageVars
  /\ dispatchRenamed([oldPath |-> o.path, newPath |-> o.newPath])

\* the listing requested by the handler arrives: the rest of the handler
\* and of the modal's submit run
ReloadResponse(l, ok) ==
  /\ op.phase = "reload"
  /\ BagIn(l, loads)
  /\ l.by = "op"
  /\ LoadSettles(l, ok)
  /\ CASE op.kind = "createFile" -> createFileRest(op)
       [] op.kind = "createFolder" -> createFolderRest(op)
       [] op.kind = "delete" -> deleteRest(op)
       [] op.kind = "rename" -> renameRest(op)
  /\ op' = Idle
  /\ issued' = issued
  /\ last' = [act |-> "done", path |-> l.path, op |-> op]
  /\ UNCHANGED <<fs, expandedFolders, opCount, clicks>>
  /\ UNCHANGED <<activeTabId, modifiedTabs, nextTabId>>
  /\ UNCHANGED mounted
  /\ UNCHANGED callVars

\* the paths a context menu can be opened on: empty space and the items
MenuPaths == {<<>>} \cup {item.path : item \in MenuItems}

Next ==
  \/ \E l \in BagToSet(loads), ok \in BOOLEAN : LoadDirectoryResponse(l, ok)
  \/ \E item \in AllNodes(treeData) : toggleFolder(item)
  \/ Retry
  \/ \E item \in AllNodes(treeData) : handleItemClick(item)
  \/ \E r \in BagToSet(fetches), ok \in BOOLEAN : addTabResponse(r, ok)
  \/ \E id \in 1..MaxTabs : handleTabClick(id)
  \/ \E id \in 1..MaxTabs : handleTabClose(id)
  \/ handleContentChange
  \/ \E d \in MenuPaths, n \in TypedNames, m \in {"file", "folder"} :
       CreateSubmit(d, n, m)
  \/ \E d \in MenuPaths, n \in TypedNames, m \in {"file", "folder"} :
       CreateRejected(d, n, m)
  \/ ModalClose
  \/ \E item \in AllNodes(treeData) : DeleteConfirm(item)
  \/ \E item \in AllNodes(treeData), n \in Names : RenameSubmit(item, n)
  \/ RemoteFails
  \/ CreateAccepted
  \/ DeleteAccepted
  \/ \E q \in FsPaths : RenameAccepted(q)
  \/ \E l \in BagToSet(loads), ok \in BOOLEAN : ReloadResponse(l, ok)

Spec == Init /\ [][Next]_vars

(***************************************************************************)
(* The page is left and entered again.  Leaving unmounts the tree and the  *)
(* editor: the cleanup of the editor's effect removes its listeners, the   *)
(* state of the components is gone, and what a request still in flight     *)
(* would set is set on nothing.  A handler that awaits its remote call     *)
(* runs on.  Entering mounts new components in their initial state.        *)
(***************************************************************************)
PageLeave ==
  /\ Click
  /\ mounted
  /\ mounted' = FALSE
  /\ treeData' = <<>>
  /\ expandedFolders' = {}
  /\ loading' = FALSE
  /\ error' = FALSE
  /\ loads' = [l \in {x \in BagToSet(loads) : x.by = "op"} |-> CopiesIn(l, loads)]
  /\ selectedFile' = None
  /\ fetches' = EmptyBag
  /\ tabs' = <<>>
  /\ activeTabId' = 0
  /\ modifiedTabs' = {}
  /\ op' = IF op.phase \in {"remote", "reload"} THEN op ELSE Idle
  /\ last' = [act |-> "leave", path |-> <<>>, op |-> op]
  /\ UNCHANGED <<fs, events, issued, nextTabId, opCount, failures, seen>>
  /\ UNCHANGED callVars

\* a mount at which the new listeners are handed the events of the past
PageEnterReplay ==
  /\ Click
  /\ ~mounted
  /\ op.phase = "idle"
  /\ mounted' = TRUE
  /\ seen' = events
  /\ loads' = loads (+) SetToBag({ListRequest(fs, <<>>, "plain")})
  /\ loading' = TRUE
  /\ last' = [act |-> "enter", path |-> <<>>, op |-> Idle]
  /\ UNCHANGED <<fs, treeData, expandedFolders, error, op, events, issued,
                 opCount, failures>>
  /\ UNCHANGED callVars
  /\ UNCHANGED pageVars
  /\ UNCHANGED editorVars

\* the mount effects: loadDirectory() of the tree, addEventListener of the
\* editor
PageEnter ==
  /\ Click
  /\ ~mounted
  /\ op.phase = "idle"
  /\ mounted' = TRUE
  /\ seen' = <<>>
  /\ loads' = loads (+) SetToBag({ListRequest(fs, <<>>, "plain")})
  /\ loading' = TRUE
  /\ last' = [act |-> "enter", path |-> <<>>, op |-> Idle]
  /\ UNCHANGED <<fs, treeData, expandedFolders, error, op, events, issued,
                 opCount, failures>>
  /\ UNCHANGED callVars
  /\ UNCHANGED pageVars
  /\ UNCHANGED editorVars

PageNext == Next \/ PageLeave \/ PageEnter

PageSpec == Init /\ [][PageNext]_vars

(***************************************************************************)
(* A later stretch of a session.  The session so far: the user clicked     *)
(* a.py, renamed a.py to b.py before the content of a.py had arrived, the  *)
(* service accepted, the root was listed again, and then the content       *)
(* arrived and opened a tab for the path a.py, which the service no longer *)
(* holds.  From there the user acts on as in Spec.                         *)
(***************************************************************************)
LaterFs == ServiceRename(InitFs, <<"a.py">>, <<"b.py">>)

LaterInit ==
  /\ fs = LaterFs
  /\ treeData = Aged(mapItems(ListItems(LaterFs, <<>>)))
  /\ expandedFolders = {}
  /\ loading = FALSE
  /\ error = FALSE
  /\ loads = EmptyBag
  /\ op = Idle
  /\ events = <<[type |-> "file-renamed", oldPath |-> <<"a.py">>,
                 newPath |-> <<"b.py">>]>>
  /\ issued = <<(<<>>)>>
  /\ selectedFile = Some(<<"a.py">>)
  /\ fetches = EmptyBag
  /\ tabs = <<[id |-> 1, path |-> <<"a.py">>, name |-> "a.py",
               content |-> "saved", isActive |-> TRUE]>>
  /\ activeTabId = 1
  /\ modifiedTabs = {}
  /\ nextTabId = 2
  /\ opCount = 0
  /\ failures = 0
  /\ clicks = 0
  /\ mounted = TRUE
  /\ seen = events
  /\ sent = 0
  /\ reported = 0
  /\ last = [act |-> "tabOpened", path |-> <<"a.py">>, op |-> Idle]

LaterSpec == LaterInit /\ [][Next]_vars

(***************************************************************************)
(* Requests are answered.  Every fetch settles: a content request, a       *)
(* listing and the remote call of a handler that are in flight resolve or  *)
(* reject at some time.  Nothing obliges the user to click.                *)
(***************************************************************************)
ContentAnswered ==
  \E r \in BagToSet(fetches), ok \in BOOLEAN : addTabResponse(r, ok)

ListingAnswered ==
  \/ \E l \in BagToSet(loads), ok \in BOOLEAN : LoadDirectoryResponse(l, ok)
  \/ \E l \in BagToSet(loads), ok \in BOOLEAN : ReloadResponse(l, ok)

RemoteAnswered ==
  \/ RemoteFails
  \/ CreateAccepted
  \/ DeleteAccepted
  \/ \E q \in FsPaths : RenameAccepted(q)

LiveSpec ==
  /\ Init
  /\ [][Next]_vars
  /\ WF_vars(ContentAnswered)
  /\ WF_vars(ListingAnswered)
  /\ WF_vars(RemoteAnswered)


(***************************************************************************)
(* Properties.                                                             *)
(***************************************************************************)

\* the step just taken applied (or dropped) the listing of a folder other
\* than the root
PatchedNonRoot == last.act \in {"loaded", "done"} /\ last.path # <<>>

\* node n lies neither on the chain from the root to p nor under p
OffChain(n, p) == ~IsPrefix(n.path, p) /\ ~IsPrefix(p, n.path)

\* C1: when the listing requested by expanding a collapsed directory p
\* fails, then after the failure is handled p is not in expandedFolders and
\* the tree holds the nodes it held before, children of p included.
C1_RollbackOnLoadFailure ==
  [][(last'.act = "loadFailed" /\ last'.path # <<>>)
       => /\ last'.path \notin expandedFolders'
          /\ treeData' = Aged(treeData)]_vars

C3_CreateSelectsNewPath ==
  [][(last'.act = "done" /\ last'.op.kind \in {"createFile", "createFolder"})
       => IF last'.op.kind = "createFile"
          THEN selectedFile' = Some(last'.op.name)
          ELSE selectedFile' = selectedFile]_vars

\* C4: after a rename of oldPath that the service answered with newPath,
\* exactly one file-renamed event with oldPath and newPath was dispatched,
\* every tab at oldPath is at newPath with the last segment of newPath as
\* its name and with its id, content and modified flag as before, and the
\* other tabs are as before.
C4_RenamePropagation ==
  [][(last'.act = "done" /\ last'.op.kind = "rename")
       => LET old == last'.op.path
              new == last'.op.newPath
          IN /\ events' = <<[type |-> "file-renamed", oldPath |-> old,
                              newPath |-> new]>>
             /\ Len(tabs') = Len(tabs)
             /\ \A i \in 1..Len(tabs) :
                  tabs'[i] = IF tabs[i].path = old
                             THEN [tabs[i] EXCEPT !.path = new,
                                                  !.name = new[Len(new)]]
                             ELSE tabs[i]
             /\ modifiedTabs' = modifiedTabs]_vars

\* a rename is done whose file was open in a tab with unsaved edits
C4_Witness ==
  /\ last.act = "done"
  /\ last.op.kind = "rename"
  /\ Len(events) = 1
  /\ \E i \in 1..Len(tabs) :
       /\ tabs[i].path = last.op.newPath
       /\ tabs[i].path # last.op.path
       /\ tabs[i].content = "edited"
       /\ tabs[i].id \in modifiedTabs

\* C5: when the renamed path was the active path, the selection after the
\* rename is the new path of the rename response.
C5_SelectionIsServerPath ==
  (/\ last.act = "done"
   /\ last.op.kind = "rename"
   /\ last.op.active = Some(last.op.path))
    => selectedFile = Some(last.op.newPath)


\* C6: whatever listings, expands, collapses, responses and reloads have
\* happened, no two nodes of the tree have the same path.
C6_PathsUnique ==
  \A n \in AllNodes(treeData) : CountPath(treeData, n.path) = 1

\* the reload after a delete inside src was applied while lib, loaded
\* before it, holds children
C6_Witness ==
  /\ last.act = "done"
  /\ last.op.kind = "delete"
  /\ last.path = <<"src">>
  /\ \E n \in AllNodes(treeData) : n.path = <<"src">> /\ n.fresh
  /\ \E n \in AllNodes(treeData) : n.path = <<"lib">> /\ n.hasChildren

\* the deleted file was the active path when the delete was confirmed
DeletedActiveFile ==
  /\ last.act = "done"
  /\ last.op.kind = "delete"
  /\ last.op.itemType = "file"
  /\ last.op.active = Some(last.op.path)

\* C7 as stated: after the delete of the file that was the active path, no
\* path is selected and no path is active.
C7_DeleteLeavesNothingActive ==
  DeletedActiveFile => selectedFile = Some(<<>>) /\ activeFile = None

\* C7 amended: after the delete of the file that was the active path, the
\* selection is empty and no tab is at the deleted path; no path is active
\* if the deleted path was still active when the delete completed, and
\* otherwise the path that became active in the meantime stays active.
C7_DeleteClearsSelection ==
  [][(/\ last'.act = "done"
      /\ last'.op.kind = "delete"
      /\ last'.op.itemType = "file"
      /\ last'.op.active = Some(last'.op.path))
       => /\ selectedFile' = Some(<<>>)
          /\ TabsAt(tabs', last'.op.path) = {}
          /\ activeFileOf(tabs', activeTabId') =
               IF activeFile = Some(last'.op.path) THEN None
               ELSE activeFile]_vars

\* the active file was deleted: nothing is selected, nothing is active
C7_Witness ==
  /\ DeletedActiveFile
  /\ selectedFile = Some(<<>>)
  /\ activeFile = None
  /\ activeTabId # 0

\* number of listing requests for path p in flight
LoadsOf(b, p) ==
  BagCardinality([l \in {x \in BagToSet(b) : x.path = p} |-> CopiesIn(l, b)])

C9_CreateExpandsAndLoadsOnce ==
  [][LET o == IF op.phase # "idle" THEN op ELSE op'
     IN o.kind \in {"createFile", "createFolder"}
          => /\ expandedFolders' =
                  IF o.path # <<>> /\ last'.act = "accepted"
                  THEN expandedFolders \cup {o.path}
                  ELSE expandedFolders
             /\ last'.act = "accepted"
                  => LoadsOf(loads', o.path) = LoadsOf(loads, o.path) + 1
             /\ last'.act = "done"
                  => /\ issued' = <<o.path>>
                     /\ o.path # <<>> => o.path \in expandedFolders']_vars

\* a create inside src, which was never expanded, is done
C9_Witness ==
  /\ clicks = 1
  /\ last.act = "done"
  /\ last.op.kind \in {"createFile", "createFolder"}
  /\ last.op.path = <<"src">>
  /\ <<"src">> \in expandedFolders
  /\ issued = << <<"src">> >>

\* the tabs of a sequence, as a set
TabSet(ts) == {ts[i] : i \in 1..Len(ts)}

\* C10: the delete of a directory d dispatches one file-deleted event with
\* d; on it a tab is removed if and only if its path is d, so a tab whose
\* path lies strictly under d stays open.
C10_ExactMatchDelete ==
  [][(last'.act = "done" /\ last'.op.kind = "delete"
      /\ last'.op.itemType = "directory")
       => LET d == last'.op.path
          IN /\ events' = <<[type |-> "file-deleted", oldPath |-> d,
                              newPath |-> <<>>]>>
             /\ TabSet(tabs') = {t \in TabSet(tabs) : t.path # d}
             /\ \A t \in TabSet(tabs) :
                  StrictlyUnder(t.path, d) => t \in TabSet(tabs')]_vars

\* a directory was deleted while a file under it is open in a tab
C10_Witness ==
  /\ last.act = "done"
  /\ last.op.kind = "delete"
  /\ last.op.itemType = "directory"
  /\ Len(events) = 1
  /\ \E i \in 1..Len(tabs) : StrictlyUnder(tabs[i].path, last.op.path)


\* C11: when the remote call of a create, delete or rename fails, the
\* tree, expandedFolders, the selected and the active path and the tabs
\* are as the handler found them, no listing is requested and no event is
\* dispatched; the same holds for the submit that started the handler.
C11_NoLocalMutationOnFailure ==
  [][last'.act \in {"submit", "opFailed"}
       => /\ treeData' = Aged(treeData)
          /\ expandedFolders' = expandedFolders
          /\ selectedFile' = selectedFile
          /\ tabs' = tabs
          /\ activeTabId' = activeTabId
          /\ modifiedTabs' = modifiedTabs
          /\ loads' = loads
          /\ fetches' = fetches
          /\ issued' = <<>>
          /\ events' = <<>>]_vars

\* a remote call has failed while a folder is expanded and a file is open
C11_Witness ==
  /\ last.act = "opFailed"
  /\ expandedFolders # {}
  /\ tabs # <<>>
  /\ selectedFile # None
  /\ \E n \in AllNodes(treeData) : n.hasChildren /\ n.children # <<>>

\* C12: whenever the remote call of a create, delete or rename fails, the
\* modal of that operation shows an error.
C12_FailureIsShown ==
  last.act = "opFailed" => op.phase = "open" /\ op.error # ""


\* the name typed into the modal of a create request
TypedOf(o) == SubSeq(o.name, Len(o.path) + 1, Len(o.name))

\* the characters a name must not contain
Reserved == {"/", "\\", "<", ">", ":", "\"", "|", "?", "*"}

\* C13: a create whose name is empty, holds only blanks or contains a path
\* separator or a reserved character is answered with a validation error
\* and no create request is sent for it: every create request in flight
\* carries a name with a piece that is not a blank and without separator
\* or reserved character.
C13_ValidationBeforeNetwork ==
  [][/\ (op'.phase = "remote" /\ op'.kind \in {"createFile", "createFolder"})
          => /\ \E i \in 1..Len(TypedOf(op')) : TypedOf(op')[i] # " "
             /\ \A i \in 1..Len(TypedOf(op')) : TypedOf(op')[i] \notin Reserved
     /\ last'.act = "rejected"
          => /\ op'.phase = "open"
             /\ op'.error = "validation"
             /\ fs' = fs
             /\ opCount' = opCount
             /\ loads' = loads]_vars

\* a name was rejected by the modal
C13_Witness ==
  /\ last.act = "rejected"
  /\ op.error = "validation"
  /\ op.path = <<"src">>
  /\ opCount = 0

\* C14: as long as the remote call of a create, delete or rename has not
\* been answered, the file service holds no change, expandedFolders and
\* the selection are as before, no listing has been requested by the
\* handler and no event has been dispatched.
C14_ReconcileAfterAcceptance ==
  [][op'.phase = "remote"
       => /\ fs' = fs
          /\ expandedFolders' = expandedFolders
          /\ selectedFile' = selectedFile
          /\ issued' = <<>>
          /\ events' = <<>>
          /\ \A l \in BagToSet(loads') : l.by # "op"]_vars

\* the service has accepted a create inside a collapsed folder: the folder
\* is expanded and listed now, not before
C14_Witness ==
  /\ last.act = "accepted"
  /\ op.phase = "reload"
  /\ op.kind \in {"createFile", "createFolder"}
  /\ op.path # <<>>
  /\ expandedFolders = {op.path}
  /\ issued = <<op.path>>
  /\ Exists(fs, op.name)


\* C15: a dispatched file-deleted or file-renamed event is handled once by
\* the listeners registered at that moment and by no others: listeners
\* that were removed handle nothing, and listeners registered later start
\* with nothing and never handle an event of the past.
C15_NoReplay ==
  [][IF last'.act = "done" /\ last'.op.kind \in {"delete", "rename"}
     THEN /\ Len(events') = Len(events) + 1
          /\ SubSeq(events', 1, Len(events)) = events
          /\ seen' = IF mounted THEN Append(seen, events'[Len(events')])
                      ELSE seen
     ELSE /\ events' \in {events, <<>>}
          /\ seen' \in {seen, <<>>}
          /\ last'.act = "enter" => seen' = <<>>]_vars

\* the page was entered after an event had been dispatched to nobody
C15_Witness ==
  /\ last.act = "enter"
  /\ mounted
  /\ events # <<>>
  /\ seen = <<>>


\* C16: after the reload of directory d that follows a create, delete or
\* rename in d, every directory other than d and the ancestors of d that
\* had loaded children before the reload, and that is not the entry
\* deleted or renamed nor under it, still has those children.
C16_ReloadKeepsOtherBranches ==
  [][last'.act = "done"
       => \A n \in AllNodes(treeData) :
            (/\ n.hasChildren
             /\ ~IsPrefix(n.path, last'.path)
             /\ ~IsPrefix(last'.op.path, n.path)
                  \/ last'.op.kind \in {"createFile", "createFolder"})
              => \E m \in AllNodes(treeData') :
                   /\ m.path = n.path
                   /\ m.hasChildren
                   /\ Aged(m.children) = Aged(n.children)]_vars

RECURSIVE Shape(_)
Shape(nodes) ==
  [i \in 1..Len(nodes) |->
     [name |-> nodes[i].name, path |-> nodes[i].path, type |-> nodes[i].type,
      hasChildren |-> nodes[i].hasChildren,
      children |-> Shape(nodes[i].children)]]

\* C18: a click on an expanded directory removes its path from
\* expandedFolders in the same step, sets isExpanded to false on the node
\* of that path and on no other, requests no listing, and leaves the name,
\* path, type and children of every node as they were, the children of
\* the collapsed node included.
C18_CollapseKeepsChildren ==
  [][last'.act = "collapse"
       => /\ last'.path \in expandedFolders
          /\ expandedFolders' = expandedFolders \ {last'.path}
          /\ loads' = loads
          /\ Shape(treeData') = Shape(treeData)
          /\ \A m \in AllNodes(treeData') :
               \E n \in AllNodes(treeData) :
                 /\ n.path = m.path
                 /\ m.isExpanded = IF m.path = last'.path THEN FALSE
                                   ELSE n.isExpanded]_vars

\* a directory with loaded children was collapsed
C18_Witness ==
  /\ last.act = "collapse"
  /\ \E n \in AllNodes(treeData) :
       /\ n.path = last.path
       /\ ~n.isExpanded
       /\ n.hasChildren
       /\ n.children # <<>>
  /\ last.path \notin expandedFolders


\* C19: a rename or delete of path x that the service accepted requests
\* exactly one listing, that of the directory x lies in (the root for a
\* top-level x), and dispatches exactly one event, file-renamed for a
\* rename and file-deleted for a delete.
C19_OneReloadOneEvent ==
  [][LET x == last'.op.path
         dir == SubSeq(x, 1, Len(x) - 1)
     IN last'.op.kind \in {"delete", "rename"}
          => /\ last'.act = "accepted"
                  => /\ issued' = <<dir>>
                     /\ LoadsOf(loads', dir) = LoadsOf(loads, dir) + 1
                     /\ BagCardinality(loads') = BagCardinality(loads) + 1
                     /\ events' = <<>>
             /\ last'.act = "done"
                  => /\ issued' = <<dir>>
                     /\ BagCardinality(loads') = BagCardinality(loads) - 1
                     /\ Len(events') = 1
                     /\ events'[1].type = IF last'.op.kind = "rename"
                                          THEN "file-renamed"
                                          ELSE "file-deleted"
                     /\ events'[1].oldPath = x]_vars

\* the rename of an entry inside a folder is done
C19_Witness ==
  /\ last.act = "done"
  /\ last.op.kind = "rename"
  /\ Len(last.op.path) = 2
  /\ issued = <<SubSeq(last.op.path, 1, 1)>>
  /\ Len(events) = 1
  /\ events[1].newPath = last.op.newPath

\* steps of the tree that are not a selection: expand, collapse, arrival
\* of a listing, Retry, the steps of a handler up to its reload, a
\* rejected name, closing a modal
TreeStepWithoutSelection ==
  last'.act \in {"expand", "collapse", "loaded", "loadFailed", "retry",
                  "submit", "accepted", "opFailed", "rejected", "close"}

\* the end of a handler that deleted or renamed the active path
EndsOnActivePath ==
  /\ last'.act = "done"
  /\ last'.op.kind \in {"delete", "rename"}
  /\ last'.op.active = Some(last'.op.path)

\* the end of a folder creation, or of a delete or rename of a path that
\* is not the active path
EndsOffActivePath ==
  /\ last'.act = "done"
  /\ \/ last'.op.kind = "createFolder"
     \/ /\ last'.op.kind \in {"delete", "rename"}
        /\ last'.op.active # Some(last'.op.path)
        /\ activeFile # Some(last'.op.path)

\* C20: the selected path changes only when a file is clicked, when a
\* file has been created, and when the active path has been deleted
\* (cleared) or renamed (set to a path, not cleared); expand, collapse,
\* arrivals of listings, folder creation and the delete or rename of a
\* path other than the active path leave the selected and the active path
\* as they are.
C20_SelectionFrame ==
  [][/\ (TreeStepWithoutSelection \/ EndsOffActivePath)
          => /\ selectedFile' = selectedFile
             /\ activeFileOf(tabs', activeTabId') = activeFile
     /\ selectedFile' # selectedFile
          => \/ last'.act = "select"
             \/ last'.act = "done" /\ last'.op.kind = "createFile"
             \/ EndsOnActivePath
     /\ EndsOnActivePath
          => IF last'.op.kind = "delete" THEN selectedFile' = Some(<<>>)
             ELSE selectedFile' \notin {None, Some(<<>>)}]_vars

\* a path other than the active one was deleted or renamed while a file
\* is selected and active
C20_Witness ==
  /\ last.act = "done"
  /\ last.op.kind \in {"delete", "rename"}
  /\ last.op.active # Some(last.op.path)
  /\ activeFile # None
  /\ selectedFile = activeFile


\* C21: every create, delete or rename the user submits sends exactly one
\* remote request: a request is sent only by a submit, one per submit; when
\* the request fails the handler sends nothing more, the catch block of
\* the modal runs once, and no request is outstanding afterwards.
C21_NoAutomaticRetry ==
  [][/\ sent' # sent
          => /\ last'.act = "submit"
             /\ sent' = sent + 1
             /\ opCount' = opCount + 1
             /\ clicks' = clicks + 1
     /\ last'.act = "opFailed"
          => /\ sent' = sent
             /\ reported' = reported + 1
             /\ op.phase = "remote"
             /\ op'.phase # "remote"
             /\ fs' = fs
     /\ reported' # reported => last'.act = "opFailed"
     /\ sent' = opCount'
     /\ reported' <= sent']_vars

\* a request the service would have accepted was lost, and was sent once
C21_Witness ==
  /\ last.act = "opFailed"
  /\ failures = 1
  /\ sent = 1
  /\ reported = 1
  /\ op.phase = "open"


\* the listing l has arrived with success on the step taken
Arrived(l) ==
  /\ CopiesIn(l, loads') = CopiesIn(l, loads) - 1
  /\ \/ last'.act = "loaded"
     \/ last'.act = "done" /\ ~error'

\* the directory nodes of the tree with path p
DirsAt(nodes, p) ==
  {n \in AllNodes(nodes) : n.path = p /\ n.type = "directory"}

\* C22: every listing that arrives with success is applied when it
\* arrives, whatever else is in flight: the directory node of its path
\* then has exactly the items of that listing as children (the root
\* listing becomes the tree), and another request for the same path that is
\* still in flight stays in flight.  So of two listings of one path the
\* one that arrives last decides the children, also when it was requested
\* first.
C22_LastResponseWins ==
  [][\A l \in BagToSet(loads) :
       Arrived(l)
         => /\ l.path = <<>> => Shape(treeData') = Shape(mapItems(l.items))
            /\ \A n \in DirsAt(treeData', l.path) :
                 /\ n.hasChildren
                 /\ Shape(n.children) = Shape(mapItems(l.items))
            /\ LoadsOf(loads', l.path) = LoadsOf(loads, l.path) - 1]_vars

\* src was listed for an expand, then again by a create in src; the
\* listing of the create arrived first and the older one last, and src
\* shows the older items
C22_Witness ==
  /\ last.act = "loaded"
  /\ last.path = <<"src">>
  /\ issued = <<(<<"src">>)>>
  /\ op = Idle
  /\ opCount = 1
  /\ loads = EmptyBag
  /\ \E n \in DirsAt(treeData, <<"src">>) :
       /\ n.hasChildren
       /\ Shape(n.children) # Shape(mapItems(ListItems(fs, <<"src">>)))
       /\ Shape(n.children) = Shape(mapItems(ListItems(InitFs, <<"src">>)))


\* C23: when a listing of a path other than the root arrives with success
\* and the tree holds no directory node of that path, the tree keeps its
\* nodes and a not-found condition is reported (the only report
\* loadDirectory can make is its error state).
C23_VanishedPathReported ==
  [][\A l \in BagToSet(loads) :
       (Arrived(l) /\ l.path # <<>> /\ DirsAt(treeData, l.path) = {})
         => /\ Shape(treeData') = Shape(treeData)
            /\ error']_vars


\* the state of the program in which LaterSpec starts
LaterInitReached ==
  /\ fs = LaterFs
  /\ treeData = Aged(mapItems(ListItems(LaterFs, <<>>)))
  /\ expandedFolders = {}
  /\ ~loading /\ ~error
  /\ loads = EmptyBag /\ fetches = EmptyBag
  /\ op = Idle
  /\ Len(events) = 1 /\ events[1].newPath = <<"b.py">>
  /\ issued = <<(<<>>)>>
  /\ seen = events
  /\ selectedFile = Some(<<"a.py">>)
  /\ tabs = <<[id |-> 1, path |-> <<"a.py">>, name |-> "a.py",
               content |-> "saved", isActive |-> TRUE]>>
  /\ activeTabId = 1 /\ modifiedTabs = {} /\ nextTabId = 2
  /\ mounted
  /\ last = [act |-> "tabOpened", path |-> <<"a.py">>, op |-> Idle]

\* C24: no two open tabs have the same path.
C24_TabPathsUnique ==
  \A i, j \in 1..Len(tabs) : tabs[i].path = tabs[j].path => i = j


\* C25: every directory node of the tree whose path is in expandedFolders
\* and for which no listing is in flight has its children loaded.
C25_ExpandedHasChildren ==
  \A n \in AllNodes(treeData) :
    (/\ n.type = "directory"
     /\ n.path \in expandedFolders
     /\ LoadsOf(loads, n.path) = 0)
      => n.hasChildren

\* the same with nothing at all in flight, no error view and the folder on
\* screen
ExpandedOnScreenHasChildren ==
  \A n \in Rendered(treeData, expandedFolders) :
    (/\ n.type = "directory"
     /\ n.path \in expandedFolders
     /\ loads = EmptyBag /\ ~loading /\ ~error /\ op = Idle)
      => n.hasChildren


\* C26: when no request is in flight and no handler is running, every path
\* in expandedFolders is the path of a directory node of the tree.
C26_NoStaleExpandedPaths ==
  (loads = EmptyBag /\ fetches = EmptyBag /\ op.phase \in {"idle", "open"})
    => \A p \in expandedFolders : DirsAt(treeData, p) # {}


\* the ids of the open tabs
TabIds == {tabs[i].id : i \in 1..Len(tabs)}

\* C27: activeTabId is null or the id of an open tab, every id in
\* modifiedTabs is the id of an open tab, and when tabs are open exactly
\* one of them is the active tab.
C27_TabBookkeeping ==
  /\ activeTabId = 0 \/ activeTabId \in TabIds
  /\ modifiedTabs \subseteq TabIds
  /\ tabs # <<>> => Cardinality(TabWithId(tabs, activeTabId)) = 1

\* the same for the stretch in which tabs stay open: a tab is open and
\* none is active
SomeTabActive ==
  tabs # <<>> => Cardinality(TabWithId(tabs, activeTabId)) = 1


\* C28: after every click on a file p in the tree, a tab for p is open and
\* active at some later time, unless the content request for p fails.  Only
\* clicks on a file the service holds, made while no request has failed
\* yet, are looked at, so that every content request sent before the click
\* has succeeded.
C28_SelectOpensTab ==
  \A p \in FsPaths :
    (last.act = "select" /\ last.path = p /\ failures = 0 /\ fs[p] = "file")
      ~> (activeFile = Some(p) \/ (last.act = "fetchFailed" /\ last.path = p))


\* the event a finished delete or rename has to announce
Announcement(o) ==
  [type |-> IF o.kind = "rename" THEN "file-renamed" ELSE "file-deleted",
   oldPath |-> o.path,
   newPath |-> IF o.kind = "rename" THEN o.newPath ELSE <<>>]

\* C29: when the service has accepted a delete or a rename and the listing
\* of the parent that follows is answered, then at some later time the
\* handler has ended and exactly one event has been dispatched, file-deleted
\* with the path or file-renamed with the old path and the path the service
\* reported; this is so whether the listing succeeded or failed.
C29_AcceptedIsAnnounced ==
  /\ [][(last'.act = "done" /\ last'.op.kind \in {"delete", "rename"})
          => events' = <<Announcement(last'.op)>>]_vars
  /\ (op.phase = "reload" /\ op.kind \in {"delete", "rename"})
       ~> (/\ last.act = "done"
           /\ last.op.kind \in {"delete", "rename"}
           /\ events = <<Announcement(last.op)>>)

\* a rename was accepted, the listing of the parent failed, and the event
\* has been dispatched
C29_Witness ==
  /\ last.act = "done"
  /\ last.op.kind = "rename"
  /\ error
  /\ failures = 1
  /\ reported = 0
  /\ events = <<Announcement(last.op)>>


\* two listings the service answered for directories neither of which
\* lies in the other
Independent(l1, l2) ==
  /\ l1.found /\ l2.found
  /\ ~IsPrefix(l1.path, l2.path)
  /\ ~IsPrefix(l2.path, l1.path)

\* C30: when two independent listings are in flight and one of them
\* arrives, then applying the other to the tree as it is now gives the
\* same names, paths, kinds and children as applying the two in the other
\* order would have given, and in that tree each of the two directories
\* has the items of its own listing as children.
C30_IndependentLoadsCommute ==
  [][\A l1, l2 \in BagToSet(loads) :
       (Independent(l1, l2) /\ Arrived(l1))
         => LET t12 == treeAfterLoad(treeData', l2)
                t21 == treeAfterLoad(treeAfterLoad(treeData, l2), l1)
            IN /\ Shape(t12) = Shape(t21)
               /\ \A n \in DirsAt(t12, l1.path) :
                    /\ n.hasChildren
                    /\ Shape(n.children) = Shape(mapItems(l1.items))
               /\ \A n \in DirsAt(t12, l2.path) :
                    /\ n.hasChildren
                    /\ Shape(n.children) = Shape(mapItems(l2.items))]_vars

\* src and lib were both being listed; the listing of lib has arrived,
\* that of src is still in flight
C30_Witness ==
  /\ last.act = "loaded"
  /\ last.path = <<"lib">>
  /\ \E l \in BagToSet(loads) : l.path = <<"src">> /\ l.found /\ l.items # <<>>
  /\ DirsAt(treeData, <<"src">>) # {}
  /\ \E n \in DirsAt(treeData, <<"lib">>) : n.hasChildren

====
